---------------------------- MODULE Spec2Model ----------------------------
(***************************************************************************)
(* A model of the cross-chain USDC transfer of lib/payments                *)
(* (executeUSDCTransfer and the helpers it calls).                          *)
(*                                                                         *)
(* Each call of executeUSDCTransfer is an execution e.  The function is    *)
(* async: it runs until its next await, and the awaited promise then       *)
(* resolves or rejects.  One action of the model is the settling of one    *)
(* awaited promise together with all the code that runs up to the next     *)
(* await, so pc[e] names the call execution e is awaiting.  Executions of  *)
(* different calls interleave at their awaits.                             *)
(*                                                                         *)
(* The two chains and the attestation service are the environment.  viem's *)
(* sendTransaction resolves with a transaction hash or rejects; viem's     *)
(* waitForTransactionReceipt resolves with the receipt of the mined        *)
(* transaction, whose status is "success" or "reverted", and rejects only  *)
(* when no receipt is obtained (time-out, transport failure).  The         *)
(* attestation service may give any answer to any query.                   *)
(***************************************************************************)
EXTENDS Integers, Sequences, FiniteSets, TLC

\* ---------------------------------------------------------------- bounds
MaxExec == 2      \* calls of executeUSDCTransfer
MaxSubmits == 4   \* transactions one call may submit (the code submits three)
MaxPolls == 3     \* answers one retrieveAttestation call is followed through
MaxRequests == 2  \* payment requests created
MaxPharmacies == 1  \* pharmacies created

Execs == 1..MaxExec
\* A negative amount, zero and a positive amount (in subunits).
Amounts == {-1, 0, 1}

\* ------------------------------------------------------------- constants
ETHEREUM_SEPOLIA_DOMAIN == 0
\* The two waits of retrieveAttestation, in milliseconds.
SHORT_WAIT_MS == 5000
LONG_WAIT_MS == 300000

\* A transaction hash is a positive number.  Empty is the empty string ""
\* and Absent a field that is not set (undefined).
Empty == 0
Absent == -1

NoError == "<absent>"
NoThrow == "<none>"

PrivateKeys == {"", "not-a-key", "key"}
Addresses == {"", "0xPharmacist"}
\* The messages of the errors viem rejects with; an Error may carry no message.
ChainErrors == {"", "HTTP request failed"}

NoParams == [privateKey |-> "", destinationAddress |-> "", amount |-> 0]
ParamsSet == [privateKey : PrivateKeys, destinationAddress : Addresses, amount : Amounts]

\* messages[0] of an attestation response, with the query it answers.
NoAtt == [status |-> "none", domain |-> Absent, txHash |-> Absent]

NoResult ==
    [success |-> FALSE, approvalTx |-> Absent, burnTx |-> Absent,
     attestation |-> NoAtt, mintTx |-> Absent, error |-> NoError]

\* A request created without an id (request.id is undefined or ""), the id a
\* caller supplies, and the first of the ids storePaymentRequest generates.
NoId == 0
CallerId == 1
FirstGeneratedId == 100

\* The addresses getPaymentRequests is called with: two spellings of one
\* address and another address.
PatientAddresses == {"0xAB", "0xab", "0xCD"}

Statuses == {"pending", "completed", "failed"}

\* localStorage.getItem('paymentRequests'): null, or the stored array.
NullItem == [present |-> FALSE, requests |-> <<>>]

\* No call of the ledger yet.
NoCall == [op |-> "none", id |-> NoId, addr |-> "", found |-> FALSE,
           returned |-> <<>>]

\* AsyncStorage.getItem('@selected_pharmacy_id') === null; also the form of
\* the pharmacies screen when it adds a pharmacy (editingPharmacy === null).
NoPharmacy == 0

PharmacyNames == {"n1", "n2"}

\* The handlers of the pharmacies screen that may be in flight together.
Calls == {1, 2}

\* No handler of the pharmacies screen runs in this slot.
NoHandler ==
    [op |-> "none", pc |-> "idle", id |-> NoPharmacy, name |-> "", local |-> <<>>,
     isNew |-> FALSE, wasSelected |-> FALSE]

\* getWalletAddress() and getEnvVar('PRIVATE_KEY') on the payment screen.
WalletAddress == "0xAB"
EnvPrivateKey == "key"

\* The calls of handlePay that may be in flight together.
Pays == {1, 2}

\* processingRequestId === null.
NoRequest == 0

\* request.amount: a JavaScript number, here NaN or a whole number of halves
\* of a subunit (the millionth part of a USDC).
NotANumber == [finite |-> FALSE, halves |-> 0]
RequestAmounts == {NotANumber, [finite |-> TRUE, halves |-> 3]}

\* handlePay has not been called.
NoPaymentRequest ==
    [id |-> NoId, patientAddress |-> "", pharmacistAddress |-> "",
     amount |-> NotANumber, status |-> ""]

\* What the attestation service can answer to one GET.
Responses == {"r404", "complete", "pending", "empty", "e429", "e404", "eOther"}

\* ----------------------------------------------------- depositForBurn inputs
\* A string is the sequence of its characters.

\* pharmacies.ts line 139: the digits of an Ethereum address ({40}).
ADDRESS_DIGITS == 40

\* part_001 line 75: the zeros between "0x" and the address.
PADDING_ZEROS == 24

\* part_001 line 33.
AVALANCHE_FUJI_DOMAIN == 1

\* part_001 lines 215 and 216: the two defaults.
DEFAULT_MAX_FEE == 500
DEFAULT_MIN_FINALITY_THRESHOLD == 1000

HexDigits ==
    {"0", "1", "2", "3", "4", "5", "6", "7", "8", "9",
     "a", "b", "c", "d", "e", "f", "A", "B", "C", "D", "E", "F"}

\* n times the character c; one character, then n - 1 times another.
Fill(n, c) == [i \in 1..n |-> c]
Led(n, first, c) == [i \in 1..n |-> IF i = 1 THEN first ELSE c]

\* The digits a caller passes: of the right length, one short, one long, with
\* a character that is no hex digit, and none at all.
Bodies ==
    {Fill(n, c) : n \in {ADDRESS_DIGITS - 1, ADDRESS_DIGITS, ADDRESS_DIGITS + 1},
                  c \in {"0", "a"}}
        \cup {Led(ADDRESS_DIGITS, "B", "7"), Led(ADDRESS_DIGITS, "1", "F"),
              Led(ADDRESS_DIGITS, "g", "7"), Fill(ADDRESS_DIGITS, "z"), <<>>}

\* params.destinationAddress: the digits with and without "0x".
DestinationAddresses == Bodies \cup {<<"0", "x">> \o body : body \in Bodies}

\* An optional field that was not supplied, and one that was.
NotGiven == [given |-> FALSE, value |-> 0]
Given(v) == [given |-> TRUE, value |-> v]

\* params.maxFee and params.minFinalityThreshold.
MaxFees == {NotGiven, Given(0), Given(7)}
MinFinalityThresholds == {NotGiven, Given(0), Given(2000)}

\* The number a caller converts: NaN or Infinity, or halves of a subunit.
UsdcAmounts ==
    {NotANumber} \cup {[finite |-> TRUE, halves |-> n] : n \in {-3, -1, 0, 1, 2, 3}}

\* usdcToBigInt has not been called; no depositForBurn was encoded.
NoConversion == [threw |-> FALSE, value |-> 0]
NoDepositForBurn ==
    [amount |-> 0, destinationDomain |-> 0, mintRecipient |-> <<>>,
     maxFee |-> 0, minFinalityThreshold |-> 0]

VARIABLES
    pc,           \* pc[e]: "idle", the call awaited, or "done"
    params,       \* params[e]: the USDCTransferParams of the call
    known,        \* known[e]: the earlier calls with the same params that had returned when e was called
    approvalTx,   \* the const approvalTx of the call (Absent until assigned)
    burnTx,       \* the const burnTx
    attestation,  \* the const attestation
    mintTx,       \* the const mintTx
    trace,        \* trace[e]: the calls made by execution e, in order
    thrown,       \* thrown[e]: the message of the error thrown in e (NoThrow: none)
    outcome,      \* outcome[e]: "none", "returned" or "threw" (the promise rejected)
    result,       \* result[e]: the TransferResult returned
    txs,          \* the transactions submitted, on both chains
    receipts,     \* the receipts obtained: [hash, status]
    queries       \* the attestation queries issued: [exec, domain, txHash]

\* One call of retrieveAttestation, followed answer by answer.
VARIABLES
    pollPc,       \* "polling", "returned" or "threw"
    pollAnswers,  \* the answers its queries have had, in order
    pollWaits,    \* the waits it has made, in order (milliseconds)
    pollReturned  \* the status of the message it returned ("none": nothing yet)

\* The payment request ledger (the module variable paymentRequestsStorage and
\* the localStorage entry 'paymentRequests').
VARIABLES
    hasLocalStorage,         \* typeof window !== 'undefined' && window.localStorage
    paymentRequestsStorage,  \* the in-memory array
    localStorageItem,        \* the localStorage entry
    created,                 \* every requestWithId created, in order
    ledgerCall               \* the last call of the ledger and what it returned

\* The pharmacies (AsyncStorage and the pharmacies screen).
VARIABLES
    pharmaciesItem,  \* the array stored under '@pharmacies' (<<>>: null or "[]")
    selectedItem,    \* the id stored under '@selected_pharmacy_id'
    shown,           \* the screen's state `pharmacies`
    pharmCall,       \* pharmCall[c]: the handler running in slot c, and where it is
    pharmCreated,    \* the pharmacies created so far
    pharmLog         \* the ids savePharmacy returned for a new pharmacy, those
                     \* deletePharmacy was called with, and those it returned for

\* The payment requests screen.
VARIABLES
    paymentRequests,      \* the state `paymentRequests`
    processingRequestId,  \* the state `processingRequestId`
    payPc,                \* payPc[h]: "none", "dialog", "cancelled", "running" or "finished"
    payFor,               \* payFor[h]: the request handlePay was called with
    payExec,              \* payExec[h]: its call of executeUSDCTransfer (0: none)
    payLog,               \* payLog[h]: the status the handler gave the request at each
                          \* update, and "transfer" where it called executeUSDCTransfer
    \* one call of executeUSDCTransfer followed to the encoding of depositForBurn
    burnIn,                      \* the number converted and the params of the call
    burnPc,                      \* "start", "converted", "validated", "encoded", "thrown"
    burnAmount,                  \* what usdcToBigInt returned
    destinationAddressBytes32,   \* the const of line 212 (<<>> until assigned)
    depositForBurn               \* the args of lines 239-247 once encoded

transferVars == <<pc, params, known, approvalTx, burnTx, attestation, mintTx,
                  trace, thrown, outcome, result, txs, receipts, queries>>

pollVars == <<pollPc, pollAnswers, pollWaits, pollReturned>>

ledgerVars == <<hasLocalStorage, paymentRequestsStorage, localStorageItem,
                created, ledgerCall>>

pharmVars == <<pharmaciesItem, selectedItem, shown, pharmCall, pharmCreated, pharmLog>>

screenVars == <<paymentRequests, processingRequestId, payPc, payFor, payExec, payLog>>

burnVars == <<burnIn, burnPc, burnAmount, destinationAddressBytes32, depositForBurn>>

vars == <<transferVars, pollVars, ledgerVars, pharmVars, screenVars, burnVars>>

\* What a step of one part of the program leaves as it is.
outsideTransfer == <<pollVars, ledgerVars, pharmVars, screenVars, burnVars>>
outsidePoll == <<transferVars, ledgerVars, pharmVars, screenVars, burnVars>>
outsideLedger == <<transferVars, pollVars, pharmVars, screenVars, burnVars>>
outsidePharm == <<transferVars, pollVars, ledgerVars, screenVars, burnVars>>
outsidePay == <<pollVars, pharmVars, burnVars>>
outsideBurn == <<transferVars, pollVars, ledgerVars, pharmVars, screenVars>>

\* ------------------------------------------------------- executeUSDCTransfer

\* ValidationError without the "<= 0n" half of the amount check.
ValidationErrorZeroOnly(p) ==
    IF p.privateKey = "" THEN "Private key is required"
    ELSE IF p.destinationAddress = "" THEN "Destination address is required"
    ELSE IF p.amount = 0 THEN "Amount must be greater than 0"
    ELSE ""

\* Lines 338-346: the three input checks, in order; "" when all pass
\* (!params.amount is true of 0n alone).
ValidationError(p) ==
    IF p.privateKey = "" THEN "Private key is required"
    ELSE IF p.destinationAddress = "" THEN "Destination address is required"
    ELSE IF p.amount = 0 \/ p.amount <= 0 THEN "Amount must be greater than 0"
    ELSE ""

\* Line 352: privateKeyToAccount throws on a key that is not a private key.
AccountError(p) ==
    IF p.privateKey = "key" THEN "" ELSE "invalid private key"

\* InTry with the input checks and the key derivation ahead of the try block.
InTryAfterSetup(step) ==
    step \in {"approve", "awaitApproval", "burn", "awaitBurn",
              "pollAttestation", "mint", "awaitMint"}

\* Lines 336-412: every statement of the function is inside the try block.
InTry(step) ==
    step \in {"validate", "approve", "awaitApproval", "burn", "awaitBurn",
              "pollAttestation", "mint", "awaitMint"}

\* AfterThrow with a burn that is submitted again when its receipt is not obtained.
AfterThrowRetriesBurn(step) == IF step = "awaitBurn" THEN "burn" ELSE "done"

\* Lines 412-419: the catch block returns; nothing is run again.
AfterThrow(step) == "done"

\* NextStepAfter without the wait for the approval's receipt.
NextStepSkipsApprovalWait(step) ==
    CASE step = "validate" -> "approve"
      [] step = "approve" -> "burn"
      [] step = "awaitApproval" -> "burn"
      [] step = "burn" -> "awaitBurn"
      [] step = "awaitBurn" -> "pollAttestation"
      [] step = "pollAttestation" -> "mint"
      [] step = "mint" -> "awaitMint"
      [] step = "awaitMint" -> "done"

\* Lines 377-403: the call awaited after the one at `step` has resolved.
NextStepAfter(step) ==
    CASE step = "validate" -> "approve"
      [] step = "approve" -> "awaitApproval"
      [] step = "awaitApproval" -> "burn"
      [] step = "burn" -> "awaitBurn"
      [] step = "awaitBurn" -> "pollAttestation"
      [] step = "pollAttestation" -> "mint"
      [] step = "mint" -> "awaitMint"
      [] step = "awaitMint" -> "done"

\* FailureResult carrying the mint hash the execution holds.
FailureResultKeepsMint(e, msg) ==
    [success |-> FALSE, approvalTx |-> Absent, burnTx |-> Empty,
     attestation |-> NoAtt, mintTx |-> mintTx[e],
     error |-> IF msg # "" THEN msg ELSE "Unknown error occurred"]

\* Lines 414-418: the result of the catch block.
FailureResult(e, msg) ==
    [success |-> FALSE, approvalTx |-> Absent, burnTx |-> Empty,
     attestation |-> NoAtt, mintTx |-> Absent,
     error |-> IF msg # "" THEN msg ELSE "Unknown error occurred"]

\* Lines 405-411: the result of the try block.
SuccessResult(e) ==
    [success |-> TRUE, approvalTx |-> approvalTx[e], burnTx |-> burnTx[e],
     attestation |-> attestation[e], mintTx |-> mintTx[e], error |-> NoError]

\* Line 260: the query of retrieveAttestation(transactionHash).
QueryKey(e, transactionHash) ==
    [exec |-> e, domain |-> ETHEREUM_SEPOLIA_DOMAIN, txHash |-> transactionHash]

\* Line 395: the hash executeUSDCTransfer passes to retrieveAttestation.
PolledHash(e) == burnTx[e]

\* PollOutcome returning messages[0] whatever its status.
PollOutcomeAnyMessage(resp) ==
    CASE resp = "r404" -> "waitShort"
      [] resp = "complete" -> "return"
      [] resp = "pending" -> "return"
      [] resp = "empty" -> "waitShort"
      [] resp = "e429" -> "waitLong"
      [] resp = "e404" -> "waitShort"
      [] resp = "eOther" -> "waitShort"

\* PollOutcome rethrowing an error that is neither a 429 nor a 404.
PollOutcomeRethrows(resp) ==
    CASE resp = "r404" -> "waitShort"
      [] resp = "complete" -> "return"
      [] resp = "pending" -> "waitShort"
      [] resp = "empty" -> "waitShort"
      [] resp = "e429" -> "waitLong"
      [] resp = "e404" -> "waitShort"
      [] resp = "eOther" -> "throw"

\* PollOutcome taking a thrown 404 for a rate limit.
PollOutcomeLongOn404(resp) ==
    CASE resp = "r404" -> "waitShort"
      [] resp = "complete" -> "return"
      [] resp = "pending" -> "waitShort"
      [] resp = "empty" -> "waitShort"
      [] resp = "e429" -> "waitLong"
      [] resp = "e404" -> "waitLong"
      [] resp = "eOther" -> "waitShort"

\* PollOutcome without the 429 branch of the catch block.
PollOutcomeNo429(resp) ==
    CASE resp = "r404" -> "waitShort"
      [] resp = "complete" -> "return"
      [] resp = "pending" -> "waitShort"
      [] resp = "empty" -> "waitShort"
      [] resp = "e429" -> "waitShort"
      [] resp = "e404" -> "waitShort"
      [] resp = "eOther" -> "waitShort"

\* PollOutcome waiting on a complete message as on a pending one.
PollOutcomeWaitsOnComplete(resp) ==
    IF resp = "e429" THEN "waitLong" ELSE "waitShort"

\* Lines 265-289: what retrieveAttestation does with one answer.
PollOutcome(resp) ==
    CASE resp = "r404" -> "waitShort"
      [] resp = "complete" -> "return"
      [] resp = "pending" -> "waitShort"
      [] resp = "empty" -> "waitShort"
      [] resp = "e429" -> "waitLong"
      [] resp = "e404" -> "waitShort"
      [] resp = "eOther" -> "waitShort"

\* The status of messages[0] of an answer that has one.
MessageStatus(resp) == IF resp = "complete" THEN "complete" ELSE "pending"

\* Lines 267, 275, 279, 284 and 288: the wait that follows an answer.
WaitMs(o) == IF o = "waitLong" THEN LONG_WAIT_MS ELSE SHORT_WAIT_MS

\* An error with message msg is thrown while execution e is at `step`.
Throw(e, step, msg) ==
    /\ thrown' = [thrown EXCEPT ![e] = msg]
    /\ IF InTry(step)
         THEN /\ pc' = [pc EXCEPT ![e] = AfterThrow(step)]
              /\ IF AfterThrow(step) = "done"
                   THEN /\ outcome' = [outcome EXCEPT ![e] = "returned"]
                        /\ result' = [result EXCEPT ![e] = FailureResult(e, msg)]
                   ELSE UNCHANGED <<outcome, result>>
         ELSE /\ pc' = [pc EXCEPT ![e] = "done"]
              /\ outcome' = [outcome EXCEPT ![e] = "threw"]
              /\ UNCHANGED result

\* Execution e goes on to await the next call.
Proceed(e, step) ==
    /\ pc' = [pc EXCEPT ![e] = NextStepAfter(step)]
    /\ trace' = [trace EXCEPT ![e] = Append(@, NextStepAfter(step))]

\* A hash no other submission has: the hashes of execution e are e, e + MaxExec, ...
FreshHash(e) == e + MaxExec * Cardinality({t \in txs : t.exec = e})

Tx(h, chain, fn, e, att) ==
    [hash |-> h, chain |-> chain, fn |-> fn, exec |-> e, att |-> att]

\* No call of retrieveAttestation is being followed on its own.
PollIdle ==
    /\ pollPc = "idle"
    /\ pollAnswers = <<>>
    /\ pollWaits = <<>>
    /\ pollReturned = "none"

TransferInit ==
    /\ pc = [e \in Execs |-> "idle"]
    /\ params = [e \in Execs |-> NoParams]
    /\ known = [e \in Execs |-> {}]
    /\ approvalTx = [e \in Execs |-> Absent]
    /\ burnTx = [e \in Execs |-> Absent]
    /\ attestation = [e \in Execs |-> NoAtt]
    /\ mintTx = [e \in Execs |-> Absent]
    /\ trace = [e \in Execs |-> <<>>]
    /\ thrown = [e \in Execs |-> NoThrow]
    /\ outcome = [e \in Execs |-> "none"]
    /\ result = [e \in Execs |-> NoResult]
    /\ txs = {}
    /\ receipts = {}
    /\ queries = {}

\* Line 95: the ledger of a freshly loaded module, without localStorage.
LedgerIdle ==
    /\ hasLocalStorage = FALSE
    /\ paymentRequestsStorage = <<>>
    /\ localStorageItem = NullItem
    /\ created = <<>>
    /\ ledgerCall = NoCall

\* The pharmacies screen after its first load, with nothing stored.
PharmIdle ==
    /\ pharmaciesItem = <<>>
    /\ selectedItem = NoPharmacy
    /\ shown = <<>>
    /\ pharmCall = [c \in Calls |-> NoHandler]
    /\ pharmCreated = 0
    /\ pharmLog = [saved |-> {}, deleteCalled |-> {}, deleted |-> {}]

\* The payment requests screen is not mounted.
ScreenIdle ==
    /\ paymentRequests = <<>>
    /\ processingRequestId = NoRequest
    /\ payPc = [h \in Pays |-> "none"]
    /\ payFor = [h \in Pays |-> NoPaymentRequest]
    /\ payExec = [h \in Pays |-> 0]
    /\ payLog = [h \in Pays |-> <<>>]

\* No call is followed to its depositForBurn.
BurnIdle ==
    /\ burnIn = [usdcAmount |-> NotANumber, destinationAddress |-> <<>>,
                 maxFee |-> NotGiven, minFinalityThreshold |-> NotGiven]
    /\ burnPc = "start"
    /\ burnAmount = NoConversion
    /\ destinationAddressBytes32 = <<>>
    /\ depositForBurn = NoDepositForBurn

Init == TransferInit /\ PollIdle /\ LedgerIdle /\ PharmIdle /\ ScreenIdle /\ BurnIdle

\* A caller calls executeUSDCTransfer(p): lines 333-379, the validation, the
\* set-up and the call of approveUSDC.
executeUSDCTransfer(e, p) ==
    /\ pc[e] = "idle"
    /\ \A d \in Execs : d < e => pc[d] # "idle"
    /\ params' = [params EXCEPT ![e] = p]
    /\ known' = [known EXCEPT ![e] = {d \in Execs : params[d] = p /\ pc[d] = "done"}]
    /\ IF ValidationError(p) # ""
         THEN Throw(e, "validate", ValidationError(p)) /\ UNCHANGED trace
       ELSE IF AccountError(p) # ""
         THEN Throw(e, "validate", AccountError(p)) /\ UNCHANGED trace
       ELSE Proceed(e, "validate") /\ UNCHANGED <<thrown, outcome, result>>
    /\ UNCHANGED <<approvalTx, burnTx, attestation, mintTx, txs,
                   receipts, queries>>

\* Lines 379-384: approveUSDC's sendTransaction settles.
approveUSDC(e) ==
    /\ pc[e] = "approve"
    /\ \/ /\ Cardinality({t \in txs : t.exec = e}) < MaxSubmits
          /\ approvalTx' = [approvalTx EXCEPT ![e] = FreshHash(e)]
          /\ txs' = txs \cup {Tx(FreshHash(e), "sepolia", "approve", e, NoAtt)}
          /\ Proceed(e, "approve")
          /\ UNCHANGED <<thrown, outcome, result>>
       \/ /\ \E msg \in ChainErrors : Throw(e, "approve", msg)
          /\ UNCHANGED <<approvalTx, txs, trace>>
    /\ UNCHANGED <<params, known, burnTx, attestation, mintTx, 
                   receipts, queries>>

\* Lines 382-387: the wait for the approval's receipt settles; the receipt is
\* not looked at; burnUSDC is called.
awaitApproval(e) ==
    /\ pc[e] = "awaitApproval"
    /\ \/ /\ \E st \in {"success", "reverted"} :
                receipts' = receipts \cup {[hash |-> approvalTx[e], status |-> st]}
          /\ Proceed(e, "awaitApproval")
          /\ UNCHANGED <<thrown, outcome, result>>
       \/ /\ \E msg \in ChainErrors : Throw(e, "awaitApproval", msg)
          /\ UNCHANGED <<receipts, trace>>
    /\ UNCHANGED <<params, known, approvalTx, burnTx, attestation,
                   mintTx, txs, queries>>

\* Lines 387-392: burnUSDC's sendTransaction settles.
burnUSDC(e) ==
    /\ pc[e] = "burn"
    /\ \/ /\ Cardinality({t \in txs : t.exec = e}) < MaxSubmits
          /\ burnTx' = [burnTx EXCEPT ![e] = FreshHash(e)]
          /\ txs' = txs \cup {Tx(FreshHash(e), "sepolia", "depositForBurn", e, NoAtt)}
          /\ Proceed(e, "burn")
          /\ UNCHANGED <<thrown, outcome, result>>
       \/ /\ \E msg \in ChainErrors : Throw(e, "burn", msg)
          /\ UNCHANGED <<burnTx, txs, trace>>
    /\ UNCHANGED <<params, known, approvalTx, attestation, mintTx,
                   receipts, queries>>

\* Lines 390-395 and 258-264: the wait for the burn's receipt settles; the
\* receipt is not looked at; retrieveAttestation issues its first query.
awaitBurn(e) ==
    /\ pc[e] = "awaitBurn"
    /\ \/ /\ \E st \in {"success", "reverted"} :
                receipts' = receipts \cup {[hash |-> burnTx[e], status |-> st]}
          /\ Proceed(e, "awaitBurn")
          /\ queries' = IF NextStepAfter("awaitBurn") = "pollAttestation"
                          THEN queries \cup {QueryKey(e, PolledHash(e))}
                          ELSE queries
          /\ UNCHANGED <<thrown, outcome, result>>
       \/ /\ \E msg \in ChainErrors : Throw(e, "awaitBurn", msg)
          /\ UNCHANGED <<receipts, trace, queries>>
    /\ UNCHANGED <<params, known, approvalTx, burnTx, attestation,
                   mintTx, txs>>

\* Lines 262-290 and 395-398: the attestation service answers the query in
\* flight.  On a complete message retrieveAttestation returns it and mintUSDC
\* is called; on any other answer it waits and issues the same query again,
\* which leaves the execution where it was.
retrieveAttestation(e, resp) ==
    /\ pc[e] = "pollAttestation"
    /\ IF PollOutcome(resp) = "return"
         THEN /\ attestation' = [attestation EXCEPT ![e] =
                    [status |-> MessageStatus(resp),
                     domain |-> ETHEREUM_SEPOLIA_DOMAIN,
                     txHash |-> PolledHash(e)]]
              /\ Proceed(e, "pollAttestation")
         ELSE UNCHANGED <<attestation, pc, trace>>
    /\ UNCHANGED <<params, known, approvalTx, burnTx, mintTx, thrown,
                   outcome, result, txs, receipts, queries>>

\* Lines 398-403: mintUSDC's sendTransaction settles.
mintUSDC(e) ==
    /\ pc[e] = "mint"
    /\ \/ /\ Cardinality({t \in txs : t.exec = e}) < MaxSubmits
          /\ mintTx' = [mintTx EXCEPT ![e] = FreshHash(e)]
          /\ txs' = txs \cup {Tx(FreshHash(e), "fuji", "receiveMessage", e, attestation[e])}
          /\ Proceed(e, "mint")
          /\ UNCHANGED <<thrown, outcome, result>>
       \/ /\ \E msg \in ChainErrors : Throw(e, "mint", msg)
          /\ UNCHANGED <<mintTx, txs, trace>>
    /\ UNCHANGED <<params, known, approvalTx, burnTx, attestation,
                   receipts, queries>>

\* Lines 401-411: the wait for the mint's receipt settles; the receipt is not
\* looked at; the function returns its result.
awaitMint(e) ==
    /\ pc[e] = "awaitMint"
    /\ \/ /\ \E st \in {"success", "reverted"} :
                receipts' = receipts \cup {[hash |-> mintTx[e], status |-> st]}
          /\ pc' = [pc EXCEPT ![e] = NextStepAfter("awaitMint")]
          /\ outcome' = [outcome EXCEPT ![e] = "returned"]
          /\ result' = [result EXCEPT ![e] = SuccessResult(e)]
          /\ UNCHANGED <<thrown, trace>>
       \/ /\ \E msg \in ChainErrors : Throw(e, "awaitMint", msg)
          /\ UNCHANGED <<receipts, trace>>
    /\ UNCHANGED <<params, known, approvalTx, burnTx, attestation,
                   mintTx, txs, queries>>

\* A step of the transfer leaves everything else as it is.
Next ==
    \/ \E e \in Execs, p \in ParamsSet : executeUSDCTransfer(e, p) /\ UNCHANGED outsideTransfer
    \/ \E e \in Execs : approveUSDC(e) /\ UNCHANGED outsideTransfer
    \/ \E e \in Execs : awaitApproval(e) /\ UNCHANGED outsideTransfer
    \/ \E e \in Execs : burnUSDC(e) /\ UNCHANGED outsideTransfer
    \/ \E e \in Execs : awaitBurn(e) /\ UNCHANGED outsideTransfer
    \/ \E e \in Execs, resp \in Responses : retrieveAttestation(e, resp) /\ UNCHANGED outsideTransfer
    \/ \E e \in Execs : mintUSDC(e) /\ UNCHANGED outsideTransfer
    \/ \E e \in Execs : awaitMint(e) /\ UNCHANGED outsideTransfer

Spec == Init /\ [][Next]_vars

\* Every submission and every wait for a receipt that a call awaits settles,
\* by returning or by throwing, and the attestation service, asked again and
\* again by the loop of lines 265-290, answers with a complete message. The
\* loop keeps no count of its retries, so an answer that makes it wait leaves
\* the call in the state it was in.
Settles(e) ==
    /\ WF_vars(approveUSDC(e) /\ UNCHANGED outsideTransfer)
    /\ WF_vars(awaitApproval(e) /\ UNCHANGED outsideTransfer)
    /\ WF_vars(burnUSDC(e) /\ UNCHANGED outsideTransfer)
    /\ WF_vars(awaitBurn(e) /\ UNCHANGED outsideTransfer)
    /\ WF_vars(retrieveAttestation(e, "complete") /\ UNCHANGED outsideTransfer)
    /\ WF_vars(mintUSDC(e) /\ UNCHANGED outsideTransfer)
    /\ WF_vars(awaitMint(e) /\ UNCHANGED outsideTransfer)

\* The calls followed to their return: two callers, whose calls may overlap.
Callers == {1, 2}

LiveNext ==
    \/ \E e \in Callers, p \in ParamsSet : executeUSDCTransfer(e, p) /\ UNCHANGED outsideTransfer
    \/ \E e \in Callers : approveUSDC(e) /\ UNCHANGED outsideTransfer
    \/ \E e \in Callers : awaitApproval(e) /\ UNCHANGED outsideTransfer
    \/ \E e \in Callers : burnUSDC(e) /\ UNCHANGED outsideTransfer
    \/ \E e \in Callers : awaitBurn(e) /\ UNCHANGED outsideTransfer
    \/ \E e \in Callers, resp \in Responses : retrieveAttestation(e, resp) /\ UNCHANGED outsideTransfer
    \/ \E e \in Callers : mintUSDC(e) /\ UNCHANGED outsideTransfer
    \/ \E e \in Callers : awaitMint(e) /\ UNCHANGED outsideTransfer

SpecLive == Init /\ [][LiveNext]_vars /\ \A e \in Callers : Settles(e)

\* ------------------------------------------------------ retrieveAttestation

\* retrieveAttestation(transactionHash) has been called and its first query
\* is in flight (lines 258-264).
PollInit ==
    /\ TransferInit
    /\ BurnIdle
    /\ LedgerIdle
    /\ PharmIdle
    /\ ScreenIdle
    /\ pollPc = "polling"
    /\ pollAnswers = <<>>
    /\ pollWaits = <<>>
    /\ pollReturned = "none"

\* Lines 262-290: the service answers the query in flight; the function
\* returns messages[0], or waits and issues the next query.
retrieveAttestationAnswer(resp) ==
    /\ pollPc = "polling"
    /\ Len(pollAnswers) < MaxPolls
    /\ pollAnswers' = Append(pollAnswers, resp)
    /\ CASE PollOutcome(resp) = "return" ->
              /\ pollPc' = "returned"
              /\ pollReturned' = MessageStatus(resp)
              /\ UNCHANGED pollWaits
         [] PollOutcome(resp) \in {"waitShort", "waitLong"} ->
              /\ pollWaits' = Append(pollWaits, WaitMs(PollOutcome(resp)))
              /\ UNCHANGED <<pollPc, pollReturned>>
         [] OTHER ->
              /\ pollPc' = "threw"
              /\ UNCHANGED <<pollWaits, pollReturned>>
    /\ UNCHANGED outsidePoll

PollNext == \E resp \in Responses : retrieveAttestationAnswer(resp)

SpecPoll == PollInit /\ [][PollNext]_vars

\* ------------------------------------------------- payment request ledger

\* String.prototype.toLowerCase on the addresses in use.
Lower(a) ==
    CASE a \in {"0xAB", "0xab"} -> "0xab"
      [] a \in {"0xCD", "0xcd"} -> "0xcd"
      [] OTHER -> a

\* The filter of getPaymentRequests comparing the addresses as they are.
MatchesExactly(req, patientAddress) == req.patientAddress = patientAddress

\* Line 138: the filter of getPaymentRequests.
Matches(req, patientAddress) == Lower(req.patientAddress) = Lower(patientAddress)

\* Line 103: `${Date.now()}-${random}`, an id no earlier request has.
GeneratedId == FirstGeneratedId + Len(created)

\* Lines 101-104.
RequestWithId(request) ==
    [request EXCEPT !.id = IF request.id = NoId THEN GeneratedId ELSE request.id]

\* Lines 110-113 and 156-162: the entry as written by localStorage.setItem.
Item(requests) == [present |-> TRUE, requests |-> requests]

\* Line 111: stored ? JSON.parse(stored) : [].
ParsedOrEmpty(item) == IF item.present THEN item.requests ELSE <<>>

\* An updatePaymentRequestStatus that writes the status whether or not the id
\* is known, adding nothing to the array.
FoundAlways(requests, requestId) == IF Len(requests) > 0 THEN 1 ELSE 0

\* Line 149: the index of the first request with this id (0: undefined).
Found(requests, requestId) ==
    IF \E i \in 1..Len(requests) : requests[i].id = requestId
    THEN CHOOSE i \in 1..Len(requests) :
            /\ requests[i].id = requestId
            /\ \A j \in 1..(i - 1) : requests[j].id # requestId
    ELSE 0

\* Lines 159-161: requests.map(r => r.id === requestId ? {...r, status} : r).
WithStatus(requests, requestId, status) ==
    [i \in 1..Len(requests) |->
        IF requests[i].id = requestId
        THEN [requests[i] EXCEPT !.status = status]
        ELSE requests[i]]

\* Lines 125-135: the array getPaymentRequests filters; readable is whether
\* localStorage is there and getItem and JSON.parse do not throw.
Loaded(memory, item, readable) ==
    IF readable /\ item.present THEN item.requests ELSE memory

\* The requests a caller may create: with or without an id, for one patient
\* whose address is spelled in two ways.
NewRequests ==
    [id : {NoId, CallerId}, patientAddress : {"0xAB", "0xab"},
     pharmacistAddress : {"0xPharmacist"},
     amount : {[finite |-> TRUE, halves |-> 3]}, status : {"pending"}]

\* Lines 100-118; lsFails: getItem, JSON.parse or setItem throws.
storePaymentRequest(request, lsFails) ==
    LET requestWithId == RequestWithId(request)
        written == hasLocalStorage /\ ~lsFails
    IN /\ Len(created) < MaxRequests
       /\ paymentRequestsStorage' = Append(paymentRequestsStorage, requestWithId)
       /\ localStorageItem' =
             IF written
             THEN Item(Append(ParsedOrEmpty(localStorageItem), requestWithId))
             ELSE localStorageItem
       /\ created' = Append(created, requestWithId)
       /\ ledgerCall' = [NoCall EXCEPT !.op = "store", !.id = requestWithId.id,
                                       !.addr = requestWithId.patientAddress]
       /\ UNCHANGED hasLocalStorage

\* Lines 123-140.
getPaymentRequests(patientAddress, lsFails) ==
    LET loaded == Loaded(paymentRequestsStorage, localStorageItem,
                         hasLocalStorage /\ ~lsFails)
    IN /\ paymentRequestsStorage' = loaded
       /\ ledgerCall' = [NoCall EXCEPT !.op = "get", !.addr = patientAddress,
                                       !.returned = SelectSeq(loaded,
                                            LAMBDA req : Matches(req, patientAddress))]
       /\ UNCHANGED <<hasLocalStorage, localStorageItem, created>>

\* Lines 149-151: the array after updatePaymentRequestStatus.
MemoryAfterUpdate(memory, requestId, status) ==
    LET i == Found(memory, requestId)
    IN IF i # 0 THEN [memory EXCEPT ![i].status = status] ELSE memory

\* Lines 150-167: the localStorage entry after updatePaymentRequestStatus;
\* writable is whether localStorage is there and getItem, JSON.parse and
\* setItem do not throw.
ItemAfterUpdate(memory, item, requestId, status, writable) ==
    IF Found(memory, requestId) # 0 /\ writable /\ item.present
    THEN Item(WithStatus(item.requests, requestId, status))
    ELSE item

\* Lines 145-169.
updatePaymentRequestStatus(requestId, status, lsFails) ==
    LET i == Found(paymentRequestsStorage, requestId)
    IN /\ paymentRequestsStorage' =
             MemoryAfterUpdate(paymentRequestsStorage, requestId, status)
       /\ localStorageItem' =
             ItemAfterUpdate(paymentRequestsStorage, localStorageItem, requestId,
                             status, hasLocalStorage /\ ~lsFails)
       /\ ledgerCall' = [NoCall EXCEPT !.op = "update", !.id = requestId,
                                       !.found = (i # 0)]
       /\ UNCHANGED <<hasLocalStorage, created>>

\* The ledger of a freshly loaded module, in either environment.
LedgerInit ==
    /\ TransferInit
    /\ BurnIdle
    /\ PollIdle
    /\ PharmIdle
    /\ ScreenIdle
    /\ hasLocalStorage \in BOOLEAN
    /\ paymentRequestsStorage = <<>>
    /\ localStorageItem = NullItem
    /\ created = <<>>
    /\ ledgerCall = NoCall

LedgerNext ==
    \/ \E request \in NewRequests, lsFails \in BOOLEAN :
          storePaymentRequest(request, lsFails) /\ UNCHANGED outsideLedger
    \/ \E patientAddress \in PatientAddresses, lsFails \in BOOLEAN :
          getPaymentRequests(patientAddress, lsFails) /\ UNCHANGED outsideLedger
    \/ \E requestId \in {CallerId, FirstGeneratedId},
          status \in Statuses, lsFails \in BOOLEAN :
          updatePaymentRequestStatus(requestId, status, lsFails) /\ UNCHANGED outsideLedger

SpecLedger == LedgerInit /\ [][LedgerNext]_vars

\* ---------------------------------------------------------- pharmacies
\* src/lib/pharmacies.ts and the handlers of src/app/(tabs)/pharmacies.tsx.
\* Every AsyncStorage operation takes effect in the step that settles it;
\* fails: the operation rejects.

Ids(list) == {list[i].id : i \in 1..Len(list)}

\* pharmacies.tsx line 157: the list is rendered unless loading, which
\* loadPharmacies sets while it runs.
Loading == \E c \in Calls : pharmCall[c].pc = "load"

\* A handler can start in slot c.
CanStart(c) == pharmCall[c].op = "none" /\ ~Loading

\* The calls of savePharmacy that will create a pharmacy.
PendingCreates ==
    {c \in Calls : pharmCall[c].op = "save" /\ pharmCall[c].id = NoPharmacy
                   /\ pharmCall[c].pc = "getPharmacies"}

\* pharmacies.ts lines 16-27: what getPharmacies returns.
GetPharmacies(fails) == IF fails THEN <<>> ELSE pharmaciesItem

\* pharmacies.ts lines 91-98: what getSelectedPharmacyId returns.
GetSelectedPharmacyId(fails) == IF fails THEN NoPharmacy ELSE selectedItem

\* pharmacies.ts lines 119-132: what getSelectedPharmacy returns when its two
\* reads succeed (the id of the pharmacy, NoPharmacy for null).
GetSelectedPharmacy ==
    IF selectedItem = NoPharmacy THEN NoPharmacy
    ELSE IF selectedItem \in Ids(pharmaciesItem) THEN selectedItem
    ELSE NoPharmacy

\* pharmacies.ts line 74: pharmacies.filter(p => p.id !== id).
Without(list, id) == SelectSeq(list, LAMBDA p : p.id # id)

\* pharmacies.ts lines 40-46: the array with the pharmacy of this id replaced.
Replaced(list, pharmacy) ==
    [i \in 1..Len(list) |-> IF list[i].id = pharmacy.id THEN pharmacy ELSE list[i]]

\* The slot's handler moves on.
Goto(c, to) == pharmCall' = [pharmCall EXCEPT ![c].pc = to]

\* The slot's handler has returned, or has caught an error and shown the alert.
Finish(c) == pharmCall' = [pharmCall EXCEPT ![c] = NoHandler]

\* pharmacies.tsx lines 110-140: Save pressed in the form; editing is the id
\* of editingPharmacy (NoPharmacy when adding). savePharmacy is called and
\* awaits getPharmacies.
handleSavePharmacy(c, editing, name) ==
    /\ CanStart(c)
    /\ \/ editing \in Ids(shown)
       \/ editing = NoPharmacy /\ pharmCreated + Cardinality(PendingCreates) < MaxPharmacies
    /\ pharmCall' = [pharmCall EXCEPT ![c] =
          [NoHandler EXCEPT !.op = "save", !.pc = "getPharmacies",
                            !.id = editing, !.name = name]]
    /\ UNCHANGED <<pharmaciesItem, selectedItem, shown, pharmCreated, pharmLog>>

\* pharmacies.ts lines 34-60: getPharmacies has settled; the array to write
\* is built, and setItem awaited.
savePharmacyRead(c, fails) ==
    LET h == pharmCall[c]
        pharmacies == GetPharmacies(fails)
    IN /\ h.op = "save" /\ h.pc = "getPharmacies"
       /\ IF h.id # NoPharmacy
          THEN /\ IF h.id \in Ids(pharmacies)
                  THEN pharmCall' = [pharmCall EXCEPT
                          ![c].local = Replaced(pharmacies, [id |-> h.id, name |-> h.name]),
                          ![c].pc = "setItem"]
                  ELSE Finish(c)     \* throw new Error('Pharmacy not found')
               /\ UNCHANGED pharmCreated
          ELSE /\ pharmCall' = [pharmCall EXCEPT
                      ![c].id = pharmCreated + 1,
                      ![c].isNew = TRUE,
                      ![c].local = Append(pharmacies,
                                          [id |-> pharmCreated + 1, name |-> h.name]),
                      ![c].pc = "setItem"]
               /\ pharmCreated' = pharmCreated + 1
       /\ UNCHANGED <<pharmaciesItem, selectedItem, shown, pharmLog>>

\* pharmacies.ts lines 60-61 and pharmacies.tsx lines 141-142: setItem has
\* settled; savePharmacy returns and loadPharmacies starts.
savePharmacyWrite(c, fails) ==
    LET h == pharmCall[c]
    IN /\ h.op = "save" /\ h.pc = "setItem"
       /\ IF fails
          THEN Finish(c) /\ UNCHANGED <<pharmaciesItem, pharmLog>>
          ELSE /\ Goto(c, "load")
               /\ pharmaciesItem' = h.local
               /\ pharmLog' = IF h.isNew
                               THEN [pharmLog EXCEPT !.saved = @ \cup {h.id}]
                               ELSE pharmLog
       /\ UNCHANGED <<selectedItem, shown, pharmCreated>>

\* pharmacies.tsx lines 75-89: Delete confirmed for a pharmacy of the list.
handleDeletePharmacy(c, id) ==
    /\ CanStart(c)
    /\ id \in Ids(shown)
    /\ pharmCall' = [pharmCall EXCEPT ![c] =
          [NoHandler EXCEPT !.op = "delete", !.pc = "getPharmacies", !.id = id,
                            !.wasSelected = (selectedItem = id)]]
    /\ pharmLog' = [pharmLog EXCEPT !.deleteCalled = @ \cup {id}]
    /\ UNCHANGED <<pharmaciesItem, selectedItem, shown, pharmCreated>>

\* pharmacies.ts lines 73-75.
deletePharmacyRead(c, fails) ==
    LET h == pharmCall[c]
    IN /\ h.op = "delete" /\ h.pc = "getPharmacies"
       /\ pharmCall' = [pharmCall EXCEPT ![c].local = Without(GetPharmacies(fails), h.id),
                                         ![c].pc = "setItem"]
       /\ UNCHANGED <<pharmaciesItem, selectedItem, shown, pharmCreated, pharmLog>>

\* pharmacies.ts lines 75-78.
deletePharmacyWrite(c, fails) ==
    LET h == pharmCall[c]
    IN /\ h.op = "delete" /\ h.pc = "setItem"
       /\ IF fails
          THEN Finish(c) /\ UNCHANGED pharmaciesItem
          ELSE Goto(c, "getSelectedPharmacyId") /\ pharmaciesItem' = h.local
       /\ UNCHANGED <<selectedItem, shown, pharmCreated, pharmLog>>

\* pharmacies.ts lines 78-81: getSelectedPharmacyId has settled.
deletePharmacySelected(c, fails) ==
    LET h == pharmCall[c]
    IN /\ h.op = "delete" /\ h.pc = "getSelectedPharmacyId"
       /\ IF GetSelectedPharmacyId(fails) = h.id
          THEN Goto(c, "removeItem") /\ UNCHANGED pharmLog
          ELSE /\ Goto(c, "load")
               /\ pharmLog' = [pharmLog EXCEPT !.deleted = @ \cup {h.id}]
       /\ UNCHANGED <<pharmaciesItem, selectedItem, shown, pharmCreated>>

\* pharmacies.ts lines 80-81: removeItem has settled.
deletePharmacyRemove(c, fails) ==
    LET h == pharmCall[c]
    IN /\ h.op = "delete" /\ h.pc = "removeItem"
       /\ IF fails
          THEN Finish(c) /\ UNCHANGED <<selectedItem, pharmLog>>
          ELSE /\ Goto(c, "load")
               /\ selectedItem' = NoPharmacy
               /\ pharmLog' = [pharmLog EXCEPT !.deleted = @ \cup {h.id}]
       /\ UNCHANGED <<pharmaciesItem, shown, pharmCreated>>

\* pharmacies.tsx lines 98-100: a pharmacy of the list is tapped;
\* setSelectedPharmacyId(pharmacy.id) is called and awaits setItem.
handleSelectPharmacy(c, id) ==
    /\ CanStart(c)
    /\ id \in Ids(shown)
    /\ pharmCall' = [pharmCall EXCEPT ![c] =
          [NoHandler EXCEPT !.op = "select", !.pc = "setItem", !.id = id]]
    /\ UNCHANGED <<pharmaciesItem, selectedItem, shown, pharmCreated, pharmLog>>

\* pharmacies.ts lines 103-114 and pharmacies.tsx lines 100-107: setItem has
\* settled.
setSelectedPharmacyId(c, fails) ==
    LET h == pharmCall[c]
    IN /\ h.op = "select" /\ h.pc = "setItem"
       /\ selectedItem' = IF fails THEN selectedItem ELSE h.id
       /\ Finish(c)
       /\ UNCHANGED <<pharmaciesItem, shown, pharmCreated, pharmLog>>

\* pharmacies.tsx lines 44-59: the reads of loadPharmacies have settled.
loadPharmacies(c, fails) ==
    /\ pharmCall[c].pc = "load"
    /\ shown' = GetPharmacies(fails)
    /\ Finish(c)
    /\ UNCHANGED <<pharmaciesItem, selectedItem, pharmCreated, pharmLog>>

PharmInit == TransferInit /\ PollIdle /\ LedgerIdle /\ PharmIdle /\ ScreenIdle /\ BurnIdle

PharmNext ==
    \/ \E c \in Calls, editing \in 0..MaxPharmacies, name \in PharmacyNames :
          handleSavePharmacy(c, editing, name) /\ UNCHANGED outsidePharm
    \/ \E c \in Calls, fails \in BOOLEAN : savePharmacyRead(c, fails) /\ UNCHANGED outsidePharm
    \/ \E c \in Calls, fails \in BOOLEAN : savePharmacyWrite(c, fails) /\ UNCHANGED outsidePharm
    \/ \E c \in Calls, id \in 1..MaxPharmacies :
          handleDeletePharmacy(c, id) /\ UNCHANGED outsidePharm
    \/ \E c \in Calls, fails \in BOOLEAN : deletePharmacyRead(c, fails) /\ UNCHANGED outsidePharm
    \/ \E c \in Calls, fails \in BOOLEAN : deletePharmacyWrite(c, fails) /\ UNCHANGED outsidePharm
    \/ \E c \in Calls, fails \in BOOLEAN : deletePharmacySelected(c, fails) /\ UNCHANGED outsidePharm
    \/ \E c \in Calls, fails \in BOOLEAN : deletePharmacyRemove(c, fails) /\ UNCHANGED outsidePharm
    \/ \E c \in Calls, id \in 1..MaxPharmacies :
          handleSelectPharmacy(c, id) /\ UNCHANGED outsidePharm
    \/ \E c \in Calls, fails \in BOOLEAN : setSelectedPharmacyId(c, fails) /\ UNCHANGED outsidePharm
    \/ \E c \in Calls, fails \in BOOLEAN : loadPharmacies(c, fails) /\ UNCHANGED outsidePharm

SpecPharm == PharmInit /\ [][PharmNext]_vars

\* -------------------------------------------------- payment requests screen
\* src/app/(tabs)/payment-requests.tsx. The objects of the state array are
\* the objects of paymentRequestsStorage (getPaymentRequests returns a filter
\* of that array), so a status written by updatePaymentRequestStatus shows in
\* both.

\* Lines 81-83: BigInt(Math.floor(usdcAmount * 1_000_000)); BigInt throws a
\* RangeError on NaN.
usdcToBigInt(usdcAmount) ==
    IF usdcAmount.finite
    THEN [threw |-> FALSE, value |-> usdcAmount.halves \div 2]
    ELSE [threw |-> TRUE, value |-> 0]

\* A handler recording completed whatever the result.
StatusForAlwaysCompleted(success) == "completed"

\* payment-requests.tsx lines 102-116: the status the handler writes when the
\* call of executeUSDCTransfer has settled.
StatusFor(success) == IF success THEN "completed" ELSE "failed"

\* The status the ledger holds for this id.
StatusOf(memory, requestId) ==
    IF Found(memory, requestId) # 0
    THEN memory[Found(memory, requestId)].status
    ELSE "unknown"

\* payment-requests.tsx lines 42-47: what loadPaymentRequests puts on screen.
Listed(memory) == SelectSeq(memory, LAMBDA req : Matches(req, WalletAddress))

\* A button that stays enabled while a request is processing.
CanPayWhileProcessing(request) == request.status = "pending"

\* payment-requests.tsx lines 251-258: Pay Now is rendered and enabled.
CanPay(request) ==
    /\ request.status = "pending"
    /\ processingRequestId = NoRequest

\* The call of executeUSDCTransfer a handler has made has settled.
Settled(h) == payExec[h] # 0 /\ pc[payExec[h]] = "done"

\* payment-requests.tsx lines 62-88: Pay Now is pressed on a request of the
\* list and the confirmation dialog is shown.
handlePay(h, i) ==
    /\ payPc[h] = "none"
    /\ \A g \in Pays : g < h => payPc[g] # "none"
    /\ i \in 1..Len(paymentRequests)
    /\ CanPay(paymentRequests[i])
    /\ paymentRequests[i].id # NoId
    /\ EnvPrivateKey # ""
    /\ payPc' = [payPc EXCEPT ![h] = "dialog"]
    /\ payFor' = [payFor EXCEPT ![h] = paymentRequests[i]]
    /\ UNCHANGED <<paymentRequests, processingRequestId, payExec, payLog>>
    /\ UNCHANGED <<ledgerVars, transferVars>>

\* payment-requests.tsx lines 83-86: Cancel is pressed.
cancelPay(h) ==
    /\ payPc[h] = "dialog"
    /\ payPc' = [payPc EXCEPT ![h] = "cancelled"]
    /\ UNCHANGED <<paymentRequests, processingRequestId, payFor, payExec, payLog>>
    /\ UNCHANGED <<ledgerVars, transferVars>>

\* payment-requests.tsx lines 89-100 (and 114-119 when usdcToBigInt throws):
\* Confirm is pressed. lsFails1, lsFails2: the localStorage accesses of the
\* first and of the second updatePaymentRequestStatus throw.
confirmPay(h, e, lsFails1, lsFails2) ==
    LET request == payFor[h]
        memory1 == MemoryAfterUpdate(paymentRequestsStorage, request.id, "pending")
        item1 == ItemAfterUpdate(paymentRequestsStorage, localStorageItem, request.id,
                                 "pending", hasLocalStorage /\ ~lsFails1)
        amountInSubunits == usdcToBigInt(request.amount)
        memory2 == MemoryAfterUpdate(memory1, request.id, "failed")
        item2 == ItemAfterUpdate(memory1, item1, request.id, "failed",
                                 hasLocalStorage /\ ~lsFails2)
    IN /\ payPc[h] = "dialog"
       /\ IF amountInSubunits.threw
          THEN /\ paymentRequestsStorage' = memory2
               /\ localStorageItem' = item2
               /\ paymentRequests' = MemoryAfterUpdate(paymentRequests, request.id, "failed")
               /\ processingRequestId' = NoRequest
               /\ payPc' = [payPc EXCEPT ![h] = "finished"]
               /\ payLog' = [payLog EXCEPT ![h] =
                     <<StatusOf(memory1, request.id), StatusOf(memory2, request.id)>>]
               /\ UNCHANGED <<payExec, transferVars>>
          ELSE /\ ~lsFails2
               /\ paymentRequestsStorage' = memory1
               /\ localStorageItem' = item1
               /\ paymentRequests' = MemoryAfterUpdate(paymentRequests, request.id, "pending")
               /\ processingRequestId' = request.id
               /\ payPc' = [payPc EXCEPT ![h] = "running"]
               /\ payExec' = [payExec EXCEPT ![h] = e]
               /\ payLog' = [payLog EXCEPT ![h] =
                     <<StatusOf(memory1, request.id), "transfer">>]
               /\ executeUSDCTransfer(e, [privateKey |-> EnvPrivateKey,
                                          destinationAddress |-> request.pharmacistAddress,
                                          amount |-> amountInSubunits.value])
       /\ UNCHANGED <<payFor, hasLocalStorage, created, ledgerCall>>

\* payment-requests.tsx lines 102-119: the call of executeUSDCTransfer has
\* settled. lsFails1: the localStorage access of updatePaymentRequestStatus
\* throws; lsFails2: that of getPaymentRequests in loadPaymentRequests.
settlePay(h, lsFails1, lsFails2) ==
    LET request == payFor[h]
        e == payExec[h]
        success == outcome[e] = "returned" /\ result[e].success
        status == StatusFor(success)
        memory1 == MemoryAfterUpdate(paymentRequestsStorage, request.id, status)
        item1 == ItemAfterUpdate(paymentRequestsStorage, localStorageItem, request.id,
                                 status, hasLocalStorage /\ ~lsFails1)
        memory2 == Loaded(memory1, item1, hasLocalStorage /\ ~lsFails2)
    IN /\ payPc[h] = "running"
       /\ Settled(h)
       /\ localStorageItem' = item1
       /\ IF success
          THEN /\ paymentRequestsStorage' = memory2
               /\ paymentRequests' = Listed(memory2)
          ELSE /\ ~lsFails2
               /\ paymentRequestsStorage' = memory1
               /\ paymentRequests' = MemoryAfterUpdate(paymentRequests, request.id, status)
       /\ processingRequestId' = NoRequest
       /\ payPc' = [payPc EXCEPT ![h] = "finished"]
       /\ payLog' = [payLog EXCEPT ![h] = Append(@, StatusOf(memory1, request.id))]
       /\ UNCHANGED <<payFor, payExec, hasLocalStorage, created, ledgerCall>>
       /\ UNCHANGED transferVars

\* payment-requests.tsx lines 39-60 and 195: Refresh is pressed.
loadPaymentRequests(lsFails) ==
    LET memory1 == Loaded(paymentRequestsStorage, localStorageItem,
                          hasLocalStorage /\ ~lsFails)
    IN /\ paymentRequestsStorage' = memory1
       /\ paymentRequests' = Listed(memory1)
       /\ UNCHANGED <<processingRequestId, payPc, payFor, payExec, payLog>>
       /\ UNCHANGED <<hasLocalStorage, localStorageItem, created, ledgerCall>>
       /\ UNCHANGED transferVars

\* Two requests for the wallet's address, one of them with an amount that is
\* not a number, as storePaymentRequest stored them.
PayLedger ==
    << [id |-> FirstGeneratedId, patientAddress |-> "0xab",
        pharmacistAddress |-> "0xPharmacist",
        amount |-> [finite |-> TRUE, halves |-> 3], status |-> "pending"],
       [id |-> FirstGeneratedId + 1, patientAddress |-> "0xAB",
        pharmacistAddress |-> "0xPharmacist",
        amount |-> NotANumber, status |-> "pending"] >>

\* The screen after its first loadPaymentRequests, in either environment.
PayInit ==
    /\ TransferInit
    /\ BurnIdle
    /\ PollIdle
    /\ PharmIdle
    /\ hasLocalStorage \in BOOLEAN
    /\ paymentRequestsStorage = PayLedger
    /\ localStorageItem = IF hasLocalStorage THEN Item(PayLedger) ELSE NullItem
    /\ created = PayLedger
    /\ ledgerCall = NoCall
    /\ paymentRequests = Listed(PayLedger)
    /\ processingRequestId = NoRequest
    /\ payPc = [h \in Pays |-> "none"]
    /\ payFor = [h \in Pays |-> NoPaymentRequest]
    /\ payExec = [h \in Pays |-> 0]
    /\ payLog = [h \in Pays |-> <<>>]

\* A step of a transfer leaves the screen and the ledger as they are.
PayNext ==
    \/ \E h \in Pays, i \in 1..Len(PayLedger) : handlePay(h, i) /\ UNCHANGED outsidePay
    \/ \E h \in Pays : cancelPay(h) /\ UNCHANGED outsidePay
    \/ \E h \in Pays, e \in Execs, lsFails1, lsFails2 \in BOOLEAN :
          confirmPay(h, e, lsFails1, lsFails2) /\ UNCHANGED outsidePay
    \/ \E h \in Pays, lsFails1, lsFails2 \in BOOLEAN :
          settlePay(h, lsFails1, lsFails2) /\ UNCHANGED outsidePay
    \/ \E lsFails \in BOOLEAN : loadPaymentRequests(lsFails) /\ UNCHANGED outsidePay
    \/ \E e \in Execs : approveUSDC(e) /\ UNCHANGED <<ledgerVars, screenVars, outsidePay>>
    \/ \E e \in Execs : awaitApproval(e) /\ UNCHANGED <<ledgerVars, screenVars, outsidePay>>
    \/ \E e \in Execs : burnUSDC(e) /\ UNCHANGED <<ledgerVars, screenVars, outsidePay>>
    \/ \E e \in Execs : awaitBurn(e) /\ UNCHANGED <<ledgerVars, screenVars, outsidePay>>
    \/ \E e \in Execs, resp \in Responses :
          retrieveAttestation(e, resp) /\ UNCHANGED <<ledgerVars, screenVars, outsidePay>>
    \/ \E e \in Execs : mintUSDC(e) /\ UNCHANGED <<ledgerVars, screenVars, outsidePay>>
    \/ \E e \in Execs : awaitMint(e) /\ UNCHANGED <<ledgerVars, screenVars, outsidePay>>

SpecPay == PayInit /\ [][PayNext]_vars

\* ------------------------------------------------- the args of depositForBurn
\* One call followed from the caller's usdcToBigInt (payment-requests.tsx line
\* 94) through the input checks of executeUSDCTransfer to the encoding of
\* depositForBurn in burnUSDC.

\* address.startsWith("0x").
StartsWith0x(address) == Len(address) >= 2 /\ address[1] = "0" /\ address[2] = "x"

\* address.slice(2).
Slice2(address) == SubSeq(address, 3, Len(address))

\* formatAddressToBytes32 leaving the prefix where it is.
formatAddressToBytes32KeepsPrefix(address) ==
    <<"0", "x">> \o Fill(PADDING_ZEROS, "0") \o address

\* part_001 lines 72-76.
formatAddressToBytes32(address) ==
    LET addressWithoutPrefix == IF StartsWith0x(address) THEN Slice2(address) ELSE address
    IN <<"0", "x">> \o Fill(PADDING_ZEROS, "0") \o addressWithoutPrefix

\* viem's size(value) of a hex string: Math.ceil((value.length - 2) / 2).
SizeInBytes(hex) == (Len(hex) - 2 + 1) \div 2

\* encodeFunctionData (lines 221-248) encodes a bytes32 argument whose size
\* is 32 bytes and throws on any other size; it does not look at the digits.
EncodesAsBytes32(hex) == SizeInBytes(hex) = (PADDING_ZEROS + ADDRESS_DIGITS) \div 2

\* Lines 215-216: value || default, where undefined, 0 and 0n are falsy.
OrDefault(option, default) ==
    IF option.given /\ option.value # 0 THEN option.value ELSE default

\* The USDCTransferParams the caller passes once the amount is converted.
TransferParams ==
    [privateKey |-> EnvPrivateKey,
     destinationAddress |-> IF burnIn.destinationAddress = <<>> THEN "" ELSE "0xPharmacist",
     amount |-> burnAmount.value]

\* payment-requests.tsx line 94: the caller converts the amount; a throw ends
\* the call before executeUSDCTransfer.
convertAmount ==
    /\ burnPc = "start"
    /\ burnAmount' = usdcToBigInt(burnIn.usdcAmount)
    /\ burnPc' = IF burnAmount'.threw THEN "thrown" ELSE "converted"
    /\ UNCHANGED <<burnIn, destinationAddressBytes32, depositForBurn>>

\* part_001 lines 337-346: the input checks of executeUSDCTransfer.
validateParams ==
    /\ burnPc = "converted"
    /\ burnPc' = IF ValidationError(TransferParams) = "" THEN "validated" ELSE "thrown"
    /\ UNCHANGED <<burnIn, burnAmount, destinationAddressBytes32, depositForBurn>>

\* part_001 lines 212-248: burnUSDC formats the recipient, fills the two
\* defaults and encodes depositForBurn.
encodeDepositForBurn ==
    /\ burnPc = "validated"
    /\ destinationAddressBytes32' = formatAddressToBytes32(burnIn.destinationAddress)
    /\ IF EncodesAsBytes32(destinationAddressBytes32')
       THEN /\ depositForBurn' =
                  [amount |-> burnAmount.value,
                   destinationDomain |-> AVALANCHE_FUJI_DOMAIN,
                   mintRecipient |-> destinationAddressBytes32',
                   maxFee |-> OrDefault(burnIn.maxFee, DEFAULT_MAX_FEE),
                   minFinalityThreshold |->
                       OrDefault(burnIn.minFinalityThreshold,
                                 DEFAULT_MIN_FINALITY_THRESHOLD)]
            /\ burnPc' = "encoded"
       ELSE /\ burnPc' = "thrown"
            /\ UNCHANGED depositForBurn
    /\ UNCHANGED <<burnIn, burnAmount>>

\* Any number, address and optional fields a caller can pass.
BurnInit ==
    /\ TransferInit
    /\ PollIdle
    /\ LedgerIdle
    /\ PharmIdle
    /\ ScreenIdle
    /\ burnIn \in [usdcAmount : UsdcAmounts, destinationAddress : DestinationAddresses,
                   maxFee : MaxFees, minFinalityThreshold : MinFinalityThresholds]
    /\ burnPc = "start"
    /\ burnAmount = NoConversion
    /\ destinationAddressBytes32 = <<>>
    /\ depositForBurn = NoDepositForBurn

BurnNext ==
    \/ convertAmount /\ UNCHANGED outsideBurn
    \/ validateParams /\ UNCHANGED outsideBurn
    \/ encodeDepositForBurn /\ UNCHANGED outsideBurn

SpecBurn == BurnInit /\ [][BurnNext]_vars

\* ------------------------------------------------------------------ claims

Range(s) == {s[i] : i \in 1..Len(s)}

IsPrefix(s, t) == Len(s) <= Len(t) /\ \A i \in 1..Len(s) : s[i] = t[i]

TxsOf(e, fn) == {t \in txs : t.exec = e /\ t.fn = fn}

QueriesOf(e) == {q \in queries : q.exec = e}

Receipt(h, st) == [hash |-> h, status |-> st]

Included(h) == \E st \in {"success", "reverted"} : Receipt(h, st) \in receipts

Populated(h) == h # Absent /\ h # Empty

CallOrder ==
    <<"approve", "awaitApproval", "burn", "awaitBurn", "pollAttestation",
      "mint", "awaitMint">>

\* C1: the mint is called, and receiveMessage submitted, only with a message of
\* status "complete" that retrieveAttestation returned for a query keyed by the
\* source domain and the hash of the burn this same execution submitted and
\* awaited the inclusion of.
C1_MintOnlyAfterCompleteAttestation ==
    /\ \A e \in Execs : "mint" \in Range(trace[e]) =>
          /\ attestation[e].status = "complete"
          /\ attestation[e].domain = ETHEREUM_SEPOLIA_DOMAIN
          /\ attestation[e].txHash = burnTx[e]
          /\ \E t \in TxsOf(e, "depositForBurn") : t.hash = burnTx[e]
          /\ Included(burnTx[e])
          /\ QueryKey(e, burnTx[e]) \in queries
    /\ \A t \in txs : t.fn = "receiveMessage" =>
          /\ "mint" \in Range(trace[t.exec])
          /\ t.att = attestation[t.exec]

\* C1 witness: a mint has been submitted while another execution holds a burn
\* of its own.
C1_Witness ==
    \E e, d \in Execs :
        /\ e # d
        /\ TxsOf(e, "receiveMessage") # {}
        /\ Populated(burnTx[d])
        /\ burnTx[d] # burnTx[e]

\* The claim's case of C2: no call of the execution threw and no receipt it
\* obtained reports a reverted transaction.
AllSucceeded(e) ==
    /\ thrown[e] = NoThrow
    /\ \A h \in {approvalTx[e], burnTx[e], mintTx[e]} : Receipt(h, "reverted") \notin receipts

\* C2: the calls of an execution are made in the order approve, await-approval,
\* burn, await-burn, poll-attestation, mint, await-mint, and an execution in
\* which every call succeeded returns success:true with approvalTx, burnTx,
\* mintTx and attestation populated, having made all seven.
C2_AllSuccessOrder ==
    \A e \in Execs :
        /\ IsPrefix(trace[e], CallOrder)
        /\ (pc[e] = "done" /\ AllSucceeded(e)) =>
              /\ outcome[e] = "returned"
              /\ result[e].success
              /\ trace[e] = CallOrder
              /\ Populated(result[e].approvalTx)
              /\ Populated(result[e].burnTx)
              /\ Populated(result[e].mintTx)
              /\ result[e].attestation.status = "complete"

\* C2 witness: an execution has returned after every call succeeded.
C2_Witness ==
    \E e \in Execs : pc[e] = "done" /\ AllSucceeded(e) /\ result[e].success

\* An error message that says the burn failed.
MentionsBurnFailure(msg) == msg \in {"BurnFailed", "Burn transaction reverted"}

BurnReverted(e) == Populated(burnTx[e]) /\ Receipt(burnTx[e], "reverted") \in receipts

\* C3 (as claimed): once the burn's receipt reports it reverted, the execution
\* issues no attestation query and submits no mint, and it returns
\* success:false with an error that mentions the burn failure.
C3_BurnRevertedFails ==
    \A e \in Execs : BurnReverted(e) =>
        /\ QueriesOf(e) = {}
        /\ TxsOf(e, "receiveMessage") = {}
        /\ pc[e] = "done"
        /\ ~result[e].success
        /\ MentionsBurnFailure(result[e].error)

\* C4 (as claimed): a failure result carries the hash of the burn the
\* execution submitted, and an empty burnTx only when it submitted none.
C4_FailureKeepsBurnTx ==
    \A e \in Execs : (outcome[e] = "returned" /\ ~result[e].success) =>
        IF TxsOf(e, "depositForBurn") # {}
          THEN result[e].burnTx = burnTx[e]
          ELSE result[e].burnTx = Empty

\* C5: no execution ends with its promise rejected; an execution in which an
\* error was thrown has returned a result with success:false and an error that
\* is set and not empty.
C5_NeverThrows ==
    \A e \in Execs :
        /\ outcome[e] # "threw"
        /\ thrown[e] # NoThrow =>
              /\ pc[e] = "done"
              /\ outcome[e] = "returned"
              /\ ~result[e].success
              /\ result[e].error \notin {NoError, ""}

\* C5 witness: an error without a message was thrown by a chain call and a
\* result was returned.
C5_Witness ==
    \E e \in Execs : thrown[e] = "" /\ outcome[e] = "returned" /\ trace[e] # <<>>

FullSuccess(r) ==
    /\ r.success
    /\ Populated(r.approvalTx)
    /\ Populated(r.burnTx)
    /\ Populated(r.mintTx)
    /\ r.attestation # NoAtt
    /\ r.error = NoError

FailureWithError(r) ==
    /\ ~r.success
    /\ r.error \notin {NoError, ""}
    /\ r.mintTx = Absent

\* C6: every result returned is a full success (success, the four identifiers
\* populated, no error) or a failure (no success, an error, no mintTx).
C6_ResultShape ==
    \A e \in Execs : outcome[e] = "returned" =>
        FullSuccess(result[e]) \/ FailureWithError(result[e])

\* C6 witness: a failure has been returned by an execution that had submitted
\* its mint.
C6_Witness ==
    \E e \in Execs :
        outcome[e] = "returned" /\ ~result[e].success /\ Populated(mintTx[e])

\* The inputs C7 is about.
InvalidInput(p) ==
    p.privateKey = "" \/ p.destinationAddress = "" \/ ~(p.amount > 0)

\* C7: a call without a private key or a destination address, or with an amount
\* that is not greater than 0, has returned success:false, and has made no
\* call, submitted no transaction and issued no attestation query.
C7_InvalidInputNoChain ==
    \A e \in Execs : (pc[e] # "idle" /\ InvalidInput(params[e])) =>
        /\ pc[e] = "done"
        /\ outcome[e] = "returned"
        /\ ~result[e].success
        /\ trace[e] = <<>>
        /\ {t \in txs : t.exec = e} = {}
        /\ QueriesOf(e) = {}

\* C7 witness: a call with a key, an address and a negative amount has
\* returned.
C7_Witness ==
    \E e \in Execs :
        /\ pc[e] = "done"
        /\ params[e].privateKey = "key"
        /\ params[e].destinationAddress # ""
        /\ params[e].amount < 0

\* The approval of execution e failed: its submission or the wait for its
\* receipt threw, or its receipt reports it reverted.
ApprovalFailed(e) ==
    \/ thrown[e] # NoThrow /\ trace[e] \in {<<"approve">>, <<"approve", "awaitApproval">>}
    \/ Populated(approvalTx[e]) /\ Receipt(approvalTx[e], "reverted") \in receipts

\* C8 (as claimed): an execution whose approval failed submits no burn, issues
\* no attestation query, submits no mint and does not return success.
C8_ApprovalFailureStops ==
    \A e \in Execs : ApprovalFailed(e) =>
        /\ TxsOf(e, "depositForBurn") = {}
        /\ QueriesOf(e) = {}
        /\ TxsOf(e, "receiveMessage") = {}
        /\ pc[e] = "done" => ~result[e].success

\* C9: an execution submits each of approve, depositForBurn and receiveMessage
\* at most once.
C9_AtMostOnce ==
    \A e \in Execs : \A fn \in {"approve", "depositForBurn", "receiveMessage"} :
        Cardinality(TxsOf(e, fn)) <= 1

\* C9 witness: an execution has failed after it submitted its burn.
C9_Witness ==
    \E e \in Execs :
        /\ pc[e] = "done"
        /\ thrown[e] # NoThrow
        /\ TxsOf(e, "depositForBurn") # {}

\* Execution d returned a failure although its burn was included.
FailedAfterBurn(d) ==
    /\ outcome[d] = "returned"
    /\ ~result[d].success
    /\ Populated(burnTx[d])
    /\ Receipt(burnTx[d], "success") \in receipts

\* C10 (as claimed): a call made for a transfer that had returned a failure
\* after its burn was included reaches the mint by resuming from the
\* attestation step with that burn: it submits no burn of its own and its
\* attestation is the one of the existing burn.
C10_ResumeWithoutSecondBurn ==
    \A e \in Execs : \A d \in known[e] :
        (FailedAfterBurn(d) /\ "mint" \in Range(trace[e])) =>
            /\ TxsOf(e, "depositForBurn") = {}
            /\ attestation[e].txHash = burnTx[d]

RECURSIVE SumSeq(_)
SumSeq(q) == IF q = <<>> THEN 0 ELSE q[1] + SumSeq(Tail(q))

\* The answers that are neither a complete message nor a rate limit.
NotYetAnswers == {"r404", "pending", "empty", "e404", "eOther"}

\* C11: retrieveAttestation never throws; it returns only on an answer whose
\* message has status "complete", and returns that message; every 404, absent
\* or pending message, malformed answer or connectivity error is followed by a
\* wait of 5 seconds and the next query.
C11_ReturnsOnlyComplete ==
    /\ pollPc \in {"polling", "returned"}
    /\ pollPc = "returned" =>
          /\ pollReturned = "complete"
          /\ pollAnswers[Len(pollAnswers)] = "complete"
    /\ pollPc = "polling" => Len(pollWaits) = Len(pollAnswers)
    /\ \A i \in 1..Len(pollAnswers) : pollAnswers[i] \in NotYetAnswers =>
          /\ i <= Len(pollWaits)
          /\ pollWaits[i] = 5000

\* C11 witness: a connectivity error and a malformed answer have been waited
\* out and the complete message returned.
C11_Witness ==
    /\ pollPc = "returned"
    /\ "eOther" \in Range(pollAnswers)
    /\ "empty" \in Range(pollAnswers)

\* C12: on two 404 answers (as responses or as thrown errors) and then a
\* complete one, retrieveAttestation has issued three queries and returns when
\* two waits of 5 seconds have elapsed; it has not returned after the first or
\* the second answer.
C12_TwoIntervals ==
    \A a, b \in {"r404", "e404"} :
        /\ pollAnswers = <<a, b, "complete">> =>
              /\ pollPc = "returned"
              /\ pollReturned = "complete"
              /\ Len(pollWaits) = 2
              /\ SumSeq(pollWaits) = 2 * 5000
        /\ pollAnswers \in {<<a>>, <<a, b>>} =>
              /\ pollPc = "polling"
              /\ SumSeq(pollWaits) = Len(pollAnswers) * 5000

\* C12 witness: a 404 response, a thrown 404 and a complete answer.
C12_Witness == pollAnswers = <<"r404", "e404", "complete">> /\ pollPc = "returned"

\* C13: a 429 is followed by a wait of 5 minutes and the next query; it makes
\* the function neither throw nor return.
C13_RateLimitLongWait ==
    \A i \in 1..Len(pollAnswers) : pollAnswers[i] = "e429" =>
        /\ i <= Len(pollWaits)
        /\ pollWaits[i] = 300000
        /\ i = Len(pollAnswers) => pollPc = "polling"

\* C13 witness: a 429 was answered, then a 404, and the function is still
\* polling.
C13_Witness ==
    /\ Len(pollAnswers) >= 2
    /\ pollAnswers[1] = "e429"
    /\ pollAnswers[2] = "e404"
    /\ pollPc = "polling"

\* Two requests that differ at most in their status.
SameRequest(r, q) == [r EXCEPT !.status = "pending"] = [q EXCEPT !.status = "pending"]

\* The requests of a are requests of b, in the order they have in b.
RECURSIVE InOrderOf(_, _)
InOrderOf(a, b) ==
    IF a = <<>> THEN TRUE
    ELSE IF b = <<>> THEN FALSE
    ELSE IF SameRequest(a[1], b[1]) THEN InOrderOf(Tail(a), Tail(b))
    ELSE InOrderOf(a, Tail(b))

\* C17: a call getPaymentRequests(addr) returns every request created so far
\* whose patientAddress equals addr up to letter case, with or without
\* localStorage and whether or not the localStorage write of its creation
\* failed.
C17_ListReturnsCreated ==
    ledgerCall.op = "get" =>
        \A i \in 1..Len(created) :
            Lower(created[i].patientAddress) = Lower(ledgerCall.addr) =>
                \E j \in 1..Len(ledgerCall.returned) :
                    SameRequest(ledgerCall.returned[j], created[i])

\* The id matches no request of the array or of the localStorage entry.
UnknownId(requestId) ==
    /\ \A i \in 1..Len(paymentRequestsStorage) : paymentRequestsStorage[i].id # requestId
    /\ \A i \in 1..Len(localStorageItem.requests) : localStorageItem.requests[i].id # requestId

\* C18: a call of updatePaymentRequestStatus with an id that matches no stored
\* request completes and leaves the in-memory array and the localStorage entry
\* as they were.
C18_UnknownIdNoOp ==
    [][(ledgerCall'.op = "update" /\ UnknownId(ledgerCall'.id)) =>
          /\ paymentRequestsStorage' = paymentRequestsStorage
          /\ localStorageItem' = localStorageItem]_vars

\* C18 witness: updatePaymentRequestStatus was called with an unknown id while
\* the array and the localStorage entry held a request.
C18_Witness ==
    /\ ledgerCall.op = "update"
    /\ UnknownId(ledgerCall.id)
    /\ Len(paymentRequestsStorage) > 0
    /\ localStorageItem.present

Quiescent == \A c \in Calls : pharmCall[c].op = "none"

\* C20: when the calls of savePharmacy, deletePharmacy and
\* setSelectedPharmacyId made so far have all returned, the stored selected id
\* is absent or is the id of a pharmacy of the stored list.
C20_SelectedExists ==
    Quiescent => (selectedItem = NoPharmacy \/ selectedItem \in Ids(pharmaciesItem))

\* What executeUSDCTransfer gave the handler: success:true.
PaySucceeded(h) ==
    /\ payExec[h] # 0
    /\ outcome[payExec[h]] = "returned"
    /\ result[payExec[h]].success

\* C14: a confirmed payment sets the request's status to pending, then calls
\* executeUSDCTransfer; when the call has settled it sets the status to
\* completed if the result has success:true and to failed otherwise; when
\* converting the amount throws it sets failed without calling the transfer.
C14_StatusFollowsResult ==
    \A h \in Pays :
        /\ payPc[h] = "running" => payLog[h] = <<"pending", "transfer">>
        /\ (payPc[h] = "finished" /\ payExec[h] # 0) =>
              /\ Len(payLog[h]) = 3
              /\ payLog[h][1] = "pending"
              /\ payLog[h][2] = "transfer"
              /\ payLog[h][3] = "completed" <=> PaySucceeded(h)
              /\ payLog[h][3] = "failed" <=> ~PaySucceeded(h)
        /\ (payPc[h] = "finished" /\ payExec[h] = 0) =>
              /\ payLog[h] = <<"pending", "failed">>
              /\ ~payFor[h].amount.finite

\* C14 witness: one payment has ended completed after a successful transfer,
\* and another has ended failed because its amount could not be converted.
C14_Witness ==
    \E h, g \in Pays :
        /\ payPc[h] = "finished" /\ PaySucceeded(h)
        /\ payLog[h] = <<"pending", "transfer", "completed">>
        /\ payPc[g] = "finished" /\ payExec[g] = 0
        /\ payLog[g] = <<"pending", "failed">>

\* C15: a request whose status is completed or failed keeps that status in
\* every step of the ledger and of the payment screen.
C15_TerminalStatusFinal ==
    [][\A i \in 1..Len(paymentRequestsStorage) :
          paymentRequestsStorage[i].status \in {"completed", "failed"} =>
              /\ i <= Len(paymentRequestsStorage')
              /\ paymentRequestsStorage'[i].status = paymentRequestsStorage[i].status]_vars

\* The mint transaction of execution e was included and succeeded.
MintCompleted(e) == Populated(mintTx[e]) /\ Receipt(mintTx[e], "success") \in receipts

\* C16: when a payment has ended whose burn transaction was included and
\* whose mint did not complete, the status the handler left is failed.
C16_BurnedNotMintedIsFailed ==
    \A h \in Pays :
        (/\ payPc[h] = "finished"
         /\ payExec[h] # 0
         /\ Populated(burnTx[payExec[h]])
         /\ Included(burnTx[payExec[h]])
         /\ ~MintCompleted(payExec[h])) =>
            payLog[h][Len(payLog[h])] = "failed"

\* deletePharmacy returns to its caller in this step, in slot c.
DeleteReturns(c) ==
    /\ pharmCall[c].op = "delete"
    /\ pharmCall[c].pc \in {"getSelectedPharmacyId", "removeItem"}
    /\ pharmCall'[c].pc = "load"

\* C21: when deletePharmacy(id) returns for a pharmacy that was the selected
\* one when it was called, the selected pointer does not hold id and
\* getSelectedPharmacy() returns null.
C21_DeleteSelectedClears ==
    [][\A c \in Calls :
          (DeleteReturns(c) /\ pharmCall[c].wasSelected) =>
              /\ selectedItem' # pharmCall[c].id
              /\ GetSelectedPharmacy' = NoPharmacy]_vars

\* C29: a pharmacy that savePharmacy returned as created is in the stored
\* list as long as deletePharmacy was not called with its id, and a pharmacy
\* for which deletePharmacy returned is not in the stored list.
C29_NoLostUpdate ==
    /\ \A id \in pharmLog.saved \ pharmLog.deleteCalled : id \in Ids(pharmaciesItem)
    /\ \A id \in pharmLog.deleted : id \notin Ids(pharmaciesItem)

\* The handlers that have called executeUSDCTransfer for this request.
StartedFor(requestId) ==
    {h \in Pays : payExec[h] # 0 /\ payFor[h].id = requestId}

\* C26: for any single payment request the screen has started at most one
\* call of executeUSDCTransfer.
C26_OneTransferPerRequest ==
    \A h \in Pays : Cardinality(StartedFor(payFor[h].id)) <= 1

\* A handler's confirmation callback ends in this step, by the return of
\* executeUSDCTransfer or by a throw.
HandlerEnds(h) == payPc[h] \in {"dialog", "running"} /\ payPc'[h] = "finished"

\* C30: the step in which a confirmation callback ends, after the return of
\* executeUSDCTransfer or after a throw, leaves processingRequestId null;
\* processingRequestId is non-null only while some callback is running; and
\* no Pay Now press is taken while it is non-null.
C30_ProcessingIdReset ==
    [][/\ \A h \in Pays : HandlerEnds(h) => processingRequestId' = NoRequest
       /\ processingRequestId' # NoRequest => \E h \in Pays : payPc'[h] = "running"
       /\ \A h \in Pays : (payPc[h] = "none" /\ payPc'[h] = "dialog")
                             => processingRequestId = NoRequest]_vars

\* A callback has ended after its transfer returned, one after a throw of
\* usdcToBigInt, and processingRequestId is null.
C30_Witness ==
    /\ processingRequestId = NoRequest
    /\ \E h \in Pays : payPc[h] = "finished" /\ payExec[h] # 0
    /\ \E h \in Pays : payPc[h] = "finished" /\ payExec[h] = 0

\* C28: where localStorage is available, the memory ledger and the array
\* parsed from the localStorage entry are the same sequence of requests:
\* same requests, same order, same statuses.
C28_MemoryEqualsLocalStorage ==
    hasLocalStorage => paymentRequestsStorage = ParsedOrEmpty(localStorageItem)

\* The last ADDRESS_DIGITS characters of an address.
DigitsOf(address) ==
    [i \in 1..ADDRESS_DIGITS |-> address[Len(address) - ADDRESS_DIGITS + i]]

\* Forty hex digits, alone or after "0x".
WellFormed(address) ==
    /\ \/ Len(address) = ADDRESS_DIGITS
       \/ Len(address) = ADDRESS_DIGITS + 2 /\ address[1] = "0" /\ address[2] = "x"
    /\ \A i \in 1..ADDRESS_DIGITS : DigitsOf(address)[i] \in HexDigits

\* "0x" and sixty-four hex digits.
IsBytes32(hex) ==
    /\ Len(hex) = 2 + PADDING_ZEROS + ADDRESS_DIGITS
    /\ hex[1] = "0" /\ hex[2] = "x"
    /\ \A i \in 3..Len(hex) : hex[i] \in HexDigits

\* formatAddressToBytes32 has been applied to params.destinationAddress.
Formatted == destinationAddressBytes32 # <<>>

\* C22: for an address of forty hex digits, with or without "0x", the value
\* formatAddressToBytes32 returns has 66 characters: "0x", 24 zeros, then the
\* forty digits of the address in their order.
C22_PadsTo32Bytes ==
    (Formatted /\ WellFormed(burnIn.destinationAddress)) =>
        /\ Len(destinationAddressBytes32) = 2 + PADDING_ZEROS + ADDRESS_DIGITS
        /\ destinationAddressBytes32[1] = "0" /\ destinationAddressBytes32[2] = "x"
        /\ \A i \in 1..PADDING_ZEROS : destinationAddressBytes32[2 + i] = "0"
        /\ \A i \in 1..ADDRESS_DIGITS :
              destinationAddressBytes32[2 + PADDING_ZEROS + i]
                  = DigitsOf(burnIn.destinationAddress)[i]

\* depositForBurn was encoded for a prefixed address of distinct digits.
C22_Witness ==
    /\ burnPc = "encoded"
    /\ burnIn.destinationAddress = <<"0", "x">> \o Led(ADDRESS_DIGITS, "B", "7")
    /\ depositForBurn.mintRecipient = destinationAddressBytes32

\* C23: formatAddressToBytes32 returns nothing for an address that is not
\* forty hex digits, and every depositForBurn that is encoded has a
\* mintRecipient of exactly 32 bytes.
C23_MalformedNeverEncoded ==
    /\ Formatted => WellFormed(burnIn.destinationAddress)
    /\ depositForBurn # NoDepositForBurn => IsBytes32(depositForBurn.mintRecipient)

\* C24: usdcToBigInt throws for a negative and for a non-finite amount, and
\* for any other amount returns its number of subunits truncated toward zero.
C24_ConvertsOrFails ==
    burnPc # "start" =>
        IF ~burnIn.usdcAmount.finite \/ burnIn.usdcAmount.halves < 0
        THEN burnAmount.threw
        ELSE ~burnAmount.threw /\ 2 * burnAmount.value <= burnIn.usdcAmount.halves
                               /\ burnIn.usdcAmount.halves < 2 * (burnAmount.value + 1)

\* What a field that may be absent stands for when the default is given.
Supplied(option, default) == IF option.given THEN option.value ELSE default

\* C25: an encoded depositForBurn carries the maxFee and minFinalityThreshold
\* the caller supplied, 0 included, and 500 and 1000 only where none was
\* supplied.
C25_SuppliedFeeAndThreshold ==
    burnPc = "encoded" =>
        /\ depositForBurn.maxFee = Supplied(burnIn.maxFee, DEFAULT_MAX_FEE)
        /\ depositForBurn.minFinalityThreshold
              = Supplied(burnIn.minFinalityThreshold, DEFAULT_MIN_FINALITY_THRESHOLD)

\* C27: every call of executeUSDCTransfer eventually returns a
\* TransferResult, given that each submission and each wait settles and the
\* attestation service eventually answers with a complete message.
C27_EventuallyReturns ==
    \A e \in Callers : (pc[e] # "idle") ~> (pc[e] = "done" /\ outcome[e] = "returned")

\* A call has returned after its poll loop got a complete message, and
\* another after a throw.
C27_Witness ==
    /\ \E e \in Callers : pc[e] = "done" /\ outcome[e] = "returned" /\ attestation[e] # NoAtt
    /\ \E e \in Callers : pc[e] = "done" /\ outcome[e] = "returned" /\ thrown[e] # NoThrow

=============================================================================
